---- MODULE Spec2Model ----
(***************************************************************************)
(* LiteImage: the batch queue of the Dashboard view (src/views/Dashboard   *)
(* .tsx) with the settings it reads (src/types.ts, SettingsModal.tsx) and  *)
(* the helpers of utils it calls (processImage, downloadBlob, delay).      *)
(*                                                                         *)
(* React is modelled as React 18 does it: the state updates of one         *)
(* JavaScript task (an event handler, or the continuation of an await) are *)
(* batched into one commit, and the effects of that commit run before the  *)
(* next task. An action is therefore one task together with the commit and *)
(* the effects it causes. The useEffect on [files] runs after every commit *)
(* of a task that called setFiles (each call builds a new array).          *)
(*                                                                         *)
(* Time is counted in milliseconds; Tick advances it by TickMs. A timer    *)
(* (setTimeout) may fire once its delay has elapsed, not before.           *)
(***************************************************************************)
EXTENDS Integers, Sequences, FiniteSets, TLC

\* ---- bounds of the model ------------------------------------------------
MaxFiles == 2
MaxDownloadRuns == 1
MaxConfigEdits == 1
MaxDim == 6
MaxTarget == 6
MaxNameLen == 3
MaxSize == 3

\* ---- constants of the program -------------------------------------------
PacingDelay == 300
Cooldown == 1000
DefaultQuality == 70
ScaleDen == 100
QualityDen == 100
ResizeQuality == 90

\* A call may take in one step at most as many files as a session supplies.
MaxBatch == MaxFiles
\* Time advances in steps of half the cooldown.
TickMs == Cooldown \div 2

ResizeModes == {"none", "percentage"}
Formats == {"image/webp", "image/png"}
Qualities == {DefaultQuality, 90}

DEFAULT_SETTINGS ==
  [autoDownload |-> TRUE, defaultQuality |-> DefaultQuality,
   defaultResizeMode |-> "none", defaultOutputFormat |-> "image/webp"]

VARIABLES
  files,         \* useState<ProcessedFile[]>: the visible job list
  isProcessing,  \* useState(false)
  settings,      \* App's useState<AppSettings>
  config,        \* Dashboard's local configuration state
  drain,         \* the running processQueue call: its position and closure
  downloads,     \* the running handleDownloadAll calls
  nextFile,      \* number of File objects supplied so far, plus one
  issued,        \* number of distinct ids Math.random has produced so far
  lastSink,      \* the downloadBlob calls made by the last step, in order
  edits,         \* number of changes made to the configuration controls
  enqueuedWith,  \* history: the configuration in effect when a file was enqueued
  clearedInFlight, \* history: files whose job was 'processing' when clearAll ran
  history,       \* history: what has happened to each file's job so far
  img,           \* processImage: the decoded source image (width, height)
  options,       \* processImage: the resize fields of its ProcessOptions
  canvas,        \* processImage: the canvas it draws on, once created
  srcFile,       \* the File handed to a helper of utils: name, type, size
  encodeOptions, \* the format and quality fields of the caller's options
  output         \* the canvas.toBlob call made and the size of its blob

queueVars == <<files, isProcessing, settings, config, drain, downloads,
               nextFile, issued, lastSink, edits, enqueuedWith,
               clearedInFlight, history>>

vars == <<files, isProcessing, settings, config, drain, downloads, nextFile,
          issued, lastSink, edits, enqueuedWith, clearedInFlight, history,
          img, options, canvas, srcFile, encodeOptions, output>>

\* The variables of the helpers of utils followed on their own.
resizeVars == <<img, options, canvas>>
encodeVars == <<srcFile, encodeOptions, output>>

\* ---- helpers --------------------------------------------------------------
Max(a, b) == IF a >= b THEN a ELSE b
Min(a, b) == IF a <= b THEN a ELSE b

NoResult == <<>>

\* The configuration a view holds right after the settings sync effect ran.
ConfigFromSettings(s) ==
  [resizeMode |-> s.defaultResizeMode, format |-> s.defaultOutputFormat,
   quality |-> s.defaultQuality]

\* processImage(file, opts) when it resolves: the output is a function of
\* the source file and of the options handed in.
ProcessImage(file, opts) ==
  <<[src |-> file, resizeMode |-> opts.resizeMode,
     format |-> opts.format, quality |-> opts.quality]>>

\* files.some(f => f.status === 'pending')
HasPending(f) == \E i \in DOMAIN f : f[i].status = "pending"

\* The list without the filter on the status: every listed job.
EveryFile(f) == f

\* files.filter(f => f.status === 'pending')
PendingFiles(f) == SelectSeq(f, LAMBDA j : j.status = "pending")

\* files.filter(f => f.status === 'done')
DoneFiles(f) == SelectSeq(f, LAMBDA j : j.status = "done")

\* prev.map(f => f.id === id ? { ...f, status } : f)
SetStatus(f, id, st) ==
  [i \in DOMAIN f |-> IF f[i].id = id THEN [f[i] EXCEPT !.status = st] ELSE f[i]]

\* prev.map(f => f.id === id ? { ...f, status: 'done', resultBlob, ... } : f)
SetDone(f, id, res) ==
  [i \in DOMAIN f |->
     IF f[i].id = id THEN [f[i] EXCEPT !.status = "done", !.result = res]
     ELSE f[i]]

IdleDrain ==
  [pc |-> "idle", batch |-> <<>>, idx |-> 0,
   cfg |-> ConfigFromSettings(DEFAULT_SETTINGS), auto |-> FALSE, timer |-> 0]

\* processQueue() up to its first await, called by the effect: the closure
\* holds the files, the configuration and the settings of the render.
ProcessQueueStart(f) ==
  LET pendingFiles == PendingFiles(f)
  IN [files |-> SetStatus(f, pendingFiles[1].id, "processing"),
      isProcessing |-> TRUE,
      drain |-> [pc |-> "pacing", batch |-> pendingFiles, idx |-> 1,
                 cfg |-> config, auto |-> settings.autoDownload,
                 timer |-> PacingDelay]]

\* useEffect(..., [files]) of the commit with files f and isProcessing p.
FilesEffect(f, p, d) ==
  IF HasPending(f) /\ ~p
  THEN ProcessQueueStart(f)
  ELSE [files |-> f, isProcessing |-> p, drain |-> d]

\* The end of an iteration if the last setFiles and setIsProcessing(false)
\* were committed apart, the effect seeing isProcessing still true.
NextIterationUnbatched(f, d, changed) ==
  IF d.idx < Len(d.batch)
  THEN [files |-> SetStatus(f, d.batch[d.idx + 1].id, "processing"),
        isProcessing |-> TRUE,
        drain |-> [d EXCEPT !.idx = d.idx + 1, !.pc = "pacing",
                            !.timer = PacingDelay]]
  ELSE [files |-> f, isProcessing |-> FALSE, drain |-> IdleDrain]

\* The end of one iteration of the for loop of processQueue, f being the
\* files after the setFiles calls of this task so far (changed tells whether
\* there was one): the next item is set to 'processing', or the loop ends
\* with setIsProcessing(false).
NextIteration(f, d, changed) ==
  IF d.idx < Len(d.batch)
  THEN [files |-> SetStatus(f, d.batch[d.idx + 1].id, "processing"),
        isProcessing |-> TRUE,
        drain |-> [d EXCEPT !.idx = d.idx + 1, !.pc = "pacing",
                            !.timer = PacingDelay]]
  ELSE IF changed
       THEN FilesEffect(f, FALSE, IdleDrain)
       ELSE [files |-> f, isProcessing |-> FALSE, drain |-> IdleDrain]

Commit(r) ==
  /\ files' = r.files
  /\ isProcessing' = r.isProcessing
  /\ drain' = r.drain

\* A task (an event handler, a continuation) runs to its end before another
\* starts: nothing else runs between downloadBlob throwing and its catch.
BetweenTasks == drain.pc # "caught"

\* downloadBlob(blob, fileName) called by 'by' for the job of file 'job' with
\* the output of file 'file'; ok tells whether it returned or threw.
SinkEvent(by, job, file, ok) ==
  [by |-> by, job |-> job, file |-> file, ok |-> ok]

\* Nothing has happened to any job yet.
NoHistory ==
  [pendingAtClear |-> {},
   batched |-> [u \in 1..MaxFiles |-> 0],
   decoded |-> [u \in 1..MaxFiles |-> 0],
   exported |-> [u \in 1..MaxFiles |-> 0],
   succeeded |-> {}]

\* ---- values of processImage's resize computation ---------------------------
\* A JavaScript number n is <<n>>, undefined is <<>>.
Undefined == <<>>
Num(n) == <<n>>

\* A test for undefined in the place of truthiness: 0 counts as given.
IsDefined(x) == x # Undefined

\* if (x): a number is truthy unless it is 0; undefined is falsy.
Truthy(x) == x # Undefined /\ x[1] # 0

\* No canvas has been created yet.
NoCanvas == <<>>

\* No helper of utils has been called yet.
NoOutput == <<>>

\* A File that stands for any: the queue does not look into it.
AnyFile == [name |-> <<"a">>, type |-> "image/png", size |-> 1]

\* The decoded images: img.width and img.height.
Images == [width : 1..MaxDim, height : 1..MaxDim]

\* options.targetWidth / targetHeight: missing, negative, zero, positive.
Targets == {Undefined} \cup {Num(n) : n \in -1..MaxTarget}

\* options.scale in units of 1 / ScaleDen (the views pass percentage / 100):
\* missing, zero, and scales from 1 % to 100 %.
Percents == {0, 1, 25, 30, 50, 75, 100}
Scales == {Undefined} \cup {Num(p) : p \in Percents}

AllResizeModes == {"none", "dimensions", "percentage"}

ResizeOptions ==
  [resizeMode : AllResizeModes, scale : Scales, targetWidth : Targets,
   targetHeight : Targets, maintainAspectRatio : BOOLEAN]

\* ---- initial state --------------------------------------------------------
QueueInit ==
  /\ files = <<>>
  /\ isProcessing = FALSE
  /\ settings = DEFAULT_SETTINGS
  /\ config = ConfigFromSettings(DEFAULT_SETTINGS)
  /\ drain = IdleDrain
  /\ downloads = <<>>
  /\ nextFile = 1
  /\ issued = 0
  /\ lastSink = <<>>
  /\ edits = 0
  /\ enqueuedWith = <<>>
  /\ clearedInFlight = {}
  /\ history = NoHistory

\* The queue's sessions: no resize computation is followed.
Init ==
  /\ QueueInit
  /\ img = [width |-> 1, height |-> 1]
  /\ options = [resizeMode |-> "none", scale |-> Undefined,
                targetWidth |-> Undefined, targetHeight |-> Undefined,
                maintainAspectRatio |-> TRUE]
  /\ canvas = NoCanvas
  /\ srcFile = AnyFile
  /\ encodeOptions = [format |-> "image/webp", quality |-> DefaultQuality]
  /\ output = NoOutput

\* ---- history --------------------------------------------------------------
\* A call of processQueue got past its early returns in this step: the
\* closure of the running call is a new one.
ProcessQueueStarted ==
  /\ drain'.pc = "pacing"
  /\ drain'.idx = 1
  /\ (drain.pc # "pacing" \/ drain.idx # 1 \/ drain'.batch # drain.batch)

\* The step is written into the history: the jobs clearAll removed while
\* 'pending', the files of a new call's pendingFiles, the file processImage
\* was called with, the jobs the loop called downloadBlob for, and the file
\* whose processImage resolved.
Recorded(clearedNow, decodedNow, succeededNow) ==
  history' =
    [pendingAtClear |-> history.pendingAtClear \cup clearedNow,
     batched |->
       [u \in 1..MaxFiles |->
          history.batched[u] +
            (IF /\ ProcessQueueStarted
                /\ \E k \in DOMAIN drain'.batch : drain'.batch[k].file = u
             THEN 1 ELSE 0)],
     decoded |->
       [u \in 1..MaxFiles |->
          history.decoded[u] + (IF u \in decodedNow THEN 1 ELSE 0)],
     exported |->
       [u \in 1..MaxFiles |->
          history.exported[u] +
            Cardinality({k \in DOMAIN lastSink' :
                           lastSink'[k].by = "auto" /\ lastSink'[k].job = u})],
     succeeded |-> history.succeeded \cup succeededNow]

\* ---- the user's operations ----------------------------------------------
SetMax(S) == CHOOSE x \in S : \A y \in S : y <= x

\* Math.random().toString(36).substring(7): an opaque token that may repeat.
\* Tokens are compared for equality only, so a new one is named by the next
\* unused number and a repeated one by the number it repeats.
MathRandomIds(ids) ==
  \A k \in DOMAIN ids :
    ids[k] <= 1 + SetMax({issued} \cup {ids[j] : j \in 1..(k - 1)})

\* setFiles(prev => [...mappedFiles, ...prev]): the new jobs put first.
EnqueueAtHead(prev, mappedFiles) == mappedFiles \o prev

\* setFiles(prev => [...prev, ...mappedFiles])
Enqueue(prev, mappedFiles) == prev \o mappedFiles

\* handleFilesSelected(newFiles), newFiles non-empty (DropZone).
HandleFilesSelected ==
  \E n \in 1..MaxBatch : \E ids \in [1..n -> 1..MaxFiles] :
    /\ BetweenTasks
    /\ nextFile + n - 1 <= MaxFiles
    /\ MathRandomIds(ids)
    /\ LET mappedFiles ==
             [k \in 1..n |-> [id |-> ids[k], file |-> nextFile + k - 1,
                              status |-> "pending", result |-> NoResult]]
       IN Commit(FilesEffect(Enqueue(files, mappedFiles), isProcessing, drain))
    /\ nextFile' = nextFile + n
    /\ issued' = SetMax({issued} \cup {ids[k] : k \in 1..n})
    /\ enqueuedWith' = enqueuedWith \o [k \in 1..n |-> config]
    /\ lastSink' = <<>>
    /\ UNCHANGED <<resizeVars, encodeVars>>
    /\ UNCHANGED <<settings, config, downloads, edits, clearedInFlight>>
    /\ Recorded({}, {}, {})

\* clearAll; its button is rendered while files.length > 0.
ClearAll ==
  /\ BetweenTasks
  /\ Len(files) > 0
  /\ Commit(FilesEffect(<<>>, isProcessing, drain))
  /\ clearedInFlight' = clearedInFlight \cup
       {files[i].file : i \in {k \in DOMAIN files : files[k].status = "processing"}}
  /\ lastSink' = <<>>
  /\ UNCHANGED <<resizeVars, encodeVars>>
  /\ UNCHANGED <<settings, config, downloads, nextFile, issued, edits,
                 enqueuedWith>>
  /\ Recorded(
       {files[i].file : i \in {k \in DOMAIN files : files[k].status = "pending"}},
       {}, {})

\* A change of one configuration control: only config changes, no effect runs.
SetConfig(c) ==
  /\ BetweenTasks
  /\ edits < MaxConfigEdits
  /\ c # config
  /\ config' = c
  /\ edits' = edits + 1
  /\ lastSink' = <<>>
  /\ UNCHANGED <<resizeVars, encodeVars>>
  /\ UNCHANGED <<files, isProcessing, settings, drain, downloads, nextFile,
                 issued, enqueuedWith, clearedInFlight>>
  /\ Recorded({}, {}, {})

\* setResizeMode(m)
SetResizeMode ==
  \E m \in ResizeModes : SetConfig([config EXCEPT !.resizeMode = m])

\* setFormat(f)
SetFormat ==
  \E f \in Formats : SetConfig([config EXCEPT !.format = f])

\* setQuality(parseInt(e.target.value)); the slider is disabled for PNG.
SetQuality ==
  \E q \in Qualities :
    /\ config.format # "image/png"
    /\ SetConfig([config EXCEPT !.quality = q])

\* updateSetting('autoDownload', checked): App gets a new settings object,
\* and Dashboard's effect on [settings] copies the defaults into its
\* configuration state.
UpdateSettingAutoDownload ==
  /\ BetweenTasks
  /\ settings' = [settings EXCEPT !.autoDownload = ~settings.autoDownload]
  /\ config' = ConfigFromSettings(settings')
  /\ lastSink' = <<>>
  /\ UNCHANGED <<resizeVars, encodeVars>>
  /\ UNCHANGED <<files, isProcessing, drain, downloads, nextFile, issued,
                 edits, enqueuedWith, clearedInFlight>>
  /\ Recorded({}, {}, {})

\* ---- processQueue, one action per continuation ----------------------------
\* await delay(300) resolves: processImage is called and awaited.
PacingElapsed ==
  /\ drain.pc = "pacing"
  /\ drain.timer = 0
  /\ drain' = [drain EXCEPT !.pc = "codec"]
  /\ lastSink' = <<>>
  /\ UNCHANGED <<resizeVars, encodeVars>>
  /\ UNCHANGED <<files, isProcessing, settings, config, downloads, nextFile,
                 issued, edits, enqueuedWith, clearedInFlight>>
  /\ Recorded({}, {drain.batch[drain.idx].file}, {})

\* await processImage(...) resolves: setFiles(done); with autoDownload (as
\* the closure holds it) downloadBlob and await delay(1000). A downloadBlob
\* that throws takes the task to the catch of the loop body (DownloadBlobThrew).
ProcessImageResolved ==
  /\ drain.pc = "codec"
  /\ LET fileItem == drain.batch[drain.idx]
         result == ProcessImage(fileItem.file, drain.cfg)
         done == SetDone(files, fileItem.id, result)
     IN IF drain.auto
        THEN \E ok \in BOOLEAN :
               /\ lastSink' = <<SinkEvent("auto", fileItem.file, result[1].src, ok)>>
               /\ IF ok
                  THEN Commit([files |-> done, isProcessing |-> isProcessing,
                               drain |-> [drain EXCEPT !.pc = "cooldown",
                                                       !.timer = Cooldown]])
                  ELSE Commit([files |-> done, isProcessing |-> isProcessing,
                               drain |-> [drain EXCEPT !.pc = "caught"]])
        ELSE /\ lastSink' = <<>>
             /\ Commit(NextIteration(done, drain, TRUE))
  /\ UNCHANGED <<resizeVars, encodeVars>>
  /\ UNCHANGED <<settings, config, downloads, nextFile, issued, edits,
                 enqueuedWith, clearedInFlight>>
  /\ Recorded({}, {}, {drain.batch[drain.idx].file})

\* await processImage(...) rejects (loadImage or toBlob failed): the catch
\* sets the job to 'error'.
ProcessImageRejected ==
  /\ drain.pc = "codec"
  /\ LET fileItem == drain.batch[drain.idx]
     IN Commit(NextIteration(SetStatus(files, fileItem.id, "error"), drain, TRUE))
  /\ lastSink' = <<>>
  /\ UNCHANGED <<resizeVars, encodeVars>>
  /\ UNCHANGED <<settings, config, downloads, nextFile, issued, edits,
                 enqueuedWith, clearedInFlight>>
  /\ Recorded({}, {}, {})

\* The catch of the loop body after downloadBlob threw: setFiles(error) on
\* the job that setFiles(done) has just updated, in the same task. The state
\* between the two updaters is kept as a state of its own, which no other
\* task can run in (see Next).
DownloadBlobThrew ==
  /\ drain.pc = "caught"
  /\ LET fileItem == drain.batch[drain.idx]
     IN Commit(NextIteration(SetStatus(files, fileItem.id, "error"), drain, TRUE))
  /\ lastSink' = <<>>
  /\ UNCHANGED <<resizeVars, encodeVars>>
  /\ UNCHANGED <<settings, config, downloads, nextFile, issued, edits,
                 enqueuedWith, clearedInFlight>>
  /\ Recorded({}, {}, {})

\* await delay(1000) after the auto download resolves.
CooldownElapsed ==
  /\ drain.pc = "cooldown"
  /\ drain.timer = 0
  /\ Commit(NextIteration(files, drain, FALSE))
  /\ lastSink' = <<>>
  /\ UNCHANGED <<resizeVars, encodeVars>>
  /\ UNCHANGED <<settings, config, downloads, nextFile, issued, edits,
                 enqueuedWith, clearedInFlight>>
  /\ Recorded({}, {}, {})

\* ---- downloads --------------------------------------------------------------
\* handleDownload(file): downloadBlob if the record has a blob and a name.
HandleDownloadSink(by, file, ok) ==
  IF file.result # NoResult
  THEN <<SinkEvent(by, file.file, file.result[1].src, ok)>>
  ELSE <<>>

\* handleDownload(file) of a result card; its button is rendered for 'done'.
HandleDownload ==
  \E i \in DOMAIN files : \E ok \in BOOLEAN :
    /\ BetweenTasks
    /\ files[i].status = "done"
    /\ lastSink' = HandleDownloadSink("one", files[i], ok)
    /\ UNCHANGED <<resizeVars, encodeVars>>
    /\ UNCHANGED <<files, isProcessing, settings, config, drain, downloads,
                   nextFile, issued, edits, enqueuedWith, clearedInFlight>>
    /\ Recorded({}, {}, {})

\* One iteration of the for loop of handleDownloadAll over the rest of
\* doneFiles: handleDownload(file), then await delay(1000). A downloadBlob
\* that throws rejects the async function: the run ends there.
DownloadIteration(rest, ok) ==
  IF rest = <<>> \/ (rest[1].result # NoResult /\ ~ok)
  THEN <<>>
  ELSE <<[rest |-> Tail(rest), timer |-> Cooldown]>>

\* handleDownloadAll up to its first await; its button is rendered while
\* doneCount > 0.
HandleDownloadAll ==
  \E ok \in BOOLEAN :
    LET doneFiles == DoneFiles(files)
    IN /\ BetweenTasks
       /\ Len(doneFiles) > 0
       /\ Len(downloads) < MaxDownloadRuns
       /\ downloads' = downloads \o DownloadIteration(doneFiles, ok)
       /\ lastSink' = HandleDownloadSink("all", doneFiles[1], ok)
       /\ UNCHANGED <<resizeVars, encodeVars>>
       /\ UNCHANGED <<files, isProcessing, settings, config, drain, nextFile,
                      issued, edits, enqueuedWith, clearedInFlight>>
       /\ Recorded({}, {}, {})

\* await delay(1000) of a handleDownloadAll run resolves: the next file of
\* its doneFiles, or the end of the loop.
DownloadAllResumed ==
  \E r \in DOMAIN downloads : \E ok \in BOOLEAN :
    LET rest == downloads[r].rest
        others(k) == IF k < r THEN downloads[k] ELSE downloads[k + 1]
        without == [k \in 1..(Len(downloads) - 1) |-> others(k)]
        next == DownloadIteration(rest, ok)
    IN /\ BetweenTasks
       /\ downloads[r].timer = 0
       /\ (rest = <<>> => ok)
       /\ downloads' = IF next = <<>> THEN without
                       ELSE [downloads EXCEPT ![r] = next[1]]
       /\ lastSink' = IF rest = <<>> THEN <<>>
                      ELSE HandleDownloadSink("all", rest[1], ok)
       /\ UNCHANGED <<resizeVars, encodeVars>>
       /\ UNCHANGED <<files, isProcessing, settings, config, drain, nextFile,
                      issued, edits, enqueuedWith, clearedInFlight>>
       /\ Recorded({}, {}, {})

\* ---- time -------------------------------------------------------------------
\* TickMs milliseconds pass: every pending setTimeout gets that much closer.
Tick ==
  /\ BetweenTasks
  /\ \/ drain.timer > 0
     \/ \E r \in DOMAIN downloads : downloads[r].timer > 0
  /\ drain' = [drain EXCEPT !.timer = Max(0, @ - TickMs)]
  /\ downloads' = [r \in DOMAIN downloads |->
                     [downloads[r] EXCEPT !.timer = Max(0, @ - TickMs)]]
  /\ lastSink' = <<>>
  /\ UNCHANGED <<resizeVars, encodeVars>>
  /\ UNCHANGED <<files, isProcessing, settings, config, nextFile, issued,
                 edits, enqueuedWith, clearedInFlight>>
  /\ Recorded({}, {}, {})

\* Every task but handleFilesSelected.
OtherTasks ==
  \/ ClearAll
  \/ SetResizeMode
  \/ SetFormat
  \/ SetQuality
  \/ UpdateSettingAutoDownload
  \/ PacingElapsed
  \/ ProcessImageResolved
  \/ ProcessImageRejected
  \/ DownloadBlobThrew
  \/ CooldownElapsed
  \/ HandleDownload
  \/ HandleDownloadAll
  \/ DownloadAllResumed
  \/ Tick

Next == HandleFilesSelected \/ OtherTasks

Spec == Init /\ [][Next]_vars

\* The sessions in which Math.random never repeats an id.
FreshIdsNext == (HandleFilesSelected /\ issued' = nextFile' - 1) \/ OtherTasks

FreshIdsSpec == Init /\ [][FreshIdsNext]_vars

\* Every codec call and every delay eventually returns; the user is free to
\* act or not.
Fairness ==
  /\ WF_vars(PacingElapsed)
  /\ WF_vars(ProcessImageResolved \/ ProcessImageRejected)
  /\ WF_vars(DownloadBlobThrew)
  /\ WF_vars(CooldownElapsed)
  /\ WF_vars(DownloadAllResumed)
  /\ WF_vars(Tick)

FairSpec == FreshIdsSpec /\ Fairness

\* The sessions in which every decode or encode fails (codec unavailable):
\* processImage always rejects, so nothing is ever Done or downloaded.
CodecDownNext ==
  \/ HandleFilesSelected
  \/ ClearAll
  \/ SetResizeMode
  \/ SetFormat
  \/ SetQuality
  \/ UpdateSettingAutoDownload
  \/ PacingElapsed
  \/ ProcessImageRejected
  \/ Tick

CodecDownSpec ==
  /\ Init
  /\ [][CodecDownNext]_vars
  /\ WF_vars(PacingElapsed)
  /\ WF_vars(ProcessImageRejected)
  /\ WF_vars(Tick)

\* ---- processImage: the size of the canvas ----------------------------------
\* A rational number num / den, den > 0.
Q(num, den) == [num |-> num, den |-> den]

\* Math.trunc in the place of Math.round.
MathTrunc(q) ==
  {IF q.num >= 0 THEN q.num \div q.den ELSE -((-q.num) \div q.den)}

\* Math.round(x) for the double x computed for num / den: the nearest
\* integer, a tie going up. The products and quotients of doubles carry a
\* rounding error, so that an exact tie may reach Math.round from either
\* side: there both neighbours are outcomes.
MathRound(q) ==
  LET up == (2 * q.num + q.den) \div (2 * q.den)
  IN IF (2 * q.num) % (2 * q.den) = q.den THEN {up - 1, up} ELSE {up}

\* resizeMode 'percentage': Math.round(img.width * scale), and the height.
PercentageDimensions(w, h, scale) ==
  {[width |-> Q(a, 1), height |-> Q(b, 1)] :
     a \in MathRound(Q(w * scale[1], ScaleDen)),
     b \in MathRound(Q(h * scale[1], ScaleDen))}

\* maintainAspectRatio with the ratio turned over: height = width * ratio.
AspectDimensionsInverted(w, h, tw, th) ==
  IF Truthy(tw) /\ ~Truthy(th)
  THEN {[width |-> Q(tw[1], 1), height |-> Q(tw[1] * w, h)]}
  ELSE IF ~Truthy(tw) /\ Truthy(th)
  THEN {[width |-> Q(th[1] * h, w), height |-> Q(th[1], 1)]}
  ELSE IF Truthy(tw) /\ Truthy(th)
  THEN IF tw[1] * h <= th[1] * w
       THEN {[width |-> Q(tw[1], 1), height |-> Q(h * tw[1], w)]}
       ELSE {[width |-> Q(w * th[1], h), height |-> Q(th[1], 1)]}
  ELSE {[width |-> Q(w, 1), height |-> Q(h, 1)]}

\* maintainAspectRatio with Math.max for the scale factor: the box is covered.
AspectDimensionsCover(w, h, tw, th) ==
  IF Truthy(tw) /\ ~Truthy(th)
  THEN {[width |-> Q(tw[1], 1), height |-> Q(tw[1] * h, w)]}
  ELSE IF ~Truthy(tw) /\ Truthy(th)
  THEN {[width |-> Q(th[1] * w, h), height |-> Q(th[1], 1)]}
  ELSE IF Truthy(tw) /\ Truthy(th)
  THEN IF tw[1] * h >= th[1] * w
       THEN {[width |-> Q(tw[1], 1), height |-> Q(h * tw[1], w)]}
       ELSE {[width |-> Q(w * th[1], h), height |-> Q(th[1], 1)]}
  ELSE {[width |-> Q(w, 1), height |-> Q(h, 1)]}

\* resizeMode 'dimensions' with maintainAspectRatio: ratio = w / h; one
\* target fixes its axis and the other follows the ratio; two targets are a
\* box, scaleFactor = Math.min(tw / w, th / h) (tw / w <= th / h exactly when
\* tw * h <= th * w); none leaves the source size.
AspectDimensions(w, h, tw, th) ==
  IF Truthy(tw) /\ ~Truthy(th)
  THEN {[width |-> Q(tw[1], 1), height |-> Q(tw[1] * h, w)]}
  ELSE IF ~Truthy(tw) /\ Truthy(th)
  THEN {[width |-> Q(th[1] * w, h), height |-> Q(th[1], 1)]}
  ELSE IF Truthy(tw) /\ Truthy(th)
  THEN IF tw[1] * h <= th[1] * w
       THEN {[width |-> Q(tw[1], 1), height |-> Q(h * tw[1], w)]}
       ELSE {[width |-> Q(w * th[1], h), height |-> Q(th[1], 1)]}
  ELSE {[width |-> Q(w, 1), height |-> Q(h, 1)]}

\* resizeMode 'dimensions' without maintainAspectRatio: each target that is
\* given replaces its axis.
StretchDimensions(w, h, tw, th) ==
  {[width |-> IF Truthy(tw) THEN Q(tw[1], 1) ELSE Q(w, 1),
    height |-> IF Truthy(th) THEN Q(th[1], 1) ELSE Q(h, 1)]}

\* finalWidth and finalHeight after "Calculate new dimensions".
FinalDimensions(image, o) ==
  LET w == image.width
      h == image.height
  IN IF o.resizeMode = "percentage" /\ Truthy(o.scale)
     THEN PercentageDimensions(w, h, o.scale)
     ELSE IF o.resizeMode = "dimensions"
     THEN IF o.maintainAspectRatio
          THEN AspectDimensions(w, h, o.targetWidth, o.targetHeight)
          ELSE StretchDimensions(w, h, o.targetWidth, o.targetHeight)
     ELSE {[width |-> Q(w, 1), height |-> Q(h, 1)]}

\* The canvas without the floor at 1: Math.round(finalWidth) alone.
CanvasSizeUnfloored(image, o) ==
  {[width |-> a, height |-> b] :
     <<a, b>> \in UNION {MathRound(f.width) \X MathRound(f.height) :
                          f \in FinalDimensions(image, o)}}

\* canvas.width = Math.max(1, Math.round(finalWidth)), and the height.
CanvasSize(image, o) ==
  {[width |-> Max(1, a), height |-> Max(1, b)] :
     <<a, b>> \in UNION {MathRound(f.width) \X MathRound(f.height) :
                          f \in FinalDimensions(image, o)}}

\* processImage from the loaded image to the canvas it creates.
CreateCanvas ==
  /\ canvas = NoCanvas
  /\ canvas' \in CanvasSize(img, options)
  /\ UNCHANGED <<img, options>>
  /\ UNCHANGED <<queueVars, encodeVars>>

\* The calls of processImage, for every image and every resize option.
ResizeInit ==
  /\ QueueInit
  /\ img \in Images
  /\ options \in ResizeOptions
  /\ canvas = NoCanvas
  /\ srcFile = AnyFile
  /\ encodeOptions = [format |-> "image/webp", quality |-> DefaultQuality]
  /\ output = NoOutput

ResizeSpec == ResizeInit /\ [][CreateCanvas]_vars

\* ---- processImage: the encoder call and the output file name ----------------
\* A file name is a sequence of characters; a letter, the dot and the slash
\* are the characters the pattern of the rename tells apart.
Chars == {"a", ".", "/"}
FileNames == UNION {[1..n -> Chars] : n \in 0..MaxNameLen}

\* file.type: the raster types resizeImage tells apart, one other raster
\* type, and the vector type.
MediaTypes == {"image/png", "image/jpeg", "image/webp", "image/svg+xml"}

\* ProcessOptions.format
OutputFormats == {"image/webp", "image/jpeg", "image/png"}

\* ProcessOptions.quality in units of 1 / QualityDen (the views pass
\* quality / 100): below 0, the ends of [0, 1], inside it, above 1.
QualityArgs == {-50, 0, 1, DefaultQuality, QualityDen, 150}

\* file.size and blob.size in bytes; an image file is never empty.
Sizes == 1..MaxSize

SourceFiles == [name : FileNames, type : MediaTypes, size : Sizes]
EncodeOptions == [format : OutputFormats, quality : QualityArgs]

\* switch (format): the extension of the output file.
Extension(format) ==
  CASE format = "image/webp" -> <<".", "w", "e", "b", "p">>
    [] format = "image/jpeg" -> <<".", "j", "p", "g">>
    [] format = "image/png" -> <<".", "p", "n", "g">>
    [] OTHER -> <<".", "w", "e", "b", "p">>

\* name.replace(/\..*$/, ""): everything from the first dot on is removed.
ReplaceFromFirstDot(name) ==
  LET dots == {i \in 1..Len(name) : name[i] = "."}
  IN IF dots = {} THEN name
     ELSE SubSeq(name, 1, (CHOOSE i \in dots : \A j \in dots : i <= j) - 1)

\* file.name.replace(/\.[^/.]+$/, ""): the leftmost dot that is followed, up
\* to the end of the name, by one or more characters other than "/" and "."
\* is removed together with what follows it.
ReplaceExtension(name) ==
  LET n == Len(name)
      starts == {i \in 1..n : /\ name[i] = "."
                              /\ i < n
                              /\ \A j \in (i + 1)..n : name[j] \notin {"/", "."}}
  IN IF starts = {} THEN name
     ELSE SubSeq(name, 1, (CHOOSE i \in starts : \A j \in starts : i <= j) - 1)

\* The encoder call with the type of the source in the place of the format.
ProcessImageEncodeSourceType(file, format, quality) ==
  [type |-> file.type, quality |-> Num(quality),
   fileName |-> ReplaceExtension(file.name) \o Extension(format)]

\* processImage(file, {format, quality, ...}) from the drawn canvas on:
\* canvas.toBlob(callback, format, quality), and the fileName it resolves to.
ProcessImageEncode(file, format, quality) ==
  [type |-> format, quality |-> Num(quality),
   fileName |-> ReplaceExtension(file.name) \o Extension(format)]

\* compressToWebP(file, quality)
CompressToWebP(file, quality) == ProcessImageEncode(file, "image/webp", quality)

\* resizeImage(file, options): the format follows the type of the source,
\* JPEG for every type but PNG and WEBP; the quality is 0.9.
ResizeImageFormat(file) ==
  IF file.type = "image/webp" THEN "image/webp"
  ELSE IF file.type = "image/png" THEN "image/png"
  ELSE "image/jpeg"

ResizeImage(file) ==
  ProcessImageEncode(file, ResizeImageFormat(file), ResizeQuality)

\* The older resizeImage(file, options), written before processImage: the
\* type of the source is the type of the output, PNG standing in for SVG;
\* the quality is 0.90 and the file keeps its name.
ResizeImageLegacy(file) ==
  [type |-> IF file.type = "image/svg+xml" THEN "image/png" ELSE file.type,
   quality |-> Num(ResizeQuality),
   fileName |-> file.name]

\* The blob canvas.toBlob(callback, type, quality) produces from one canvas,
\* as far as its arguments decide it. The encoder belongs to the browser:
\* it uses the quality for image/jpeg and image/webp if it is a number in
\* [0, 1], and its own default otherwise; image/png has no quality.
CanvasToBlob(call) ==
  [type |-> call.type,
   quality |-> IF /\ call.type \in {"image/jpeg", "image/webp"}
                  /\ call.quality # Undefined
                  /\ call.quality[1] >= 0
                  /\ call.quality[1] <= QualityDen
               THEN call.quality ELSE Undefined]

\* The savings floored at 0: Math.max(0, ...).
SavingsClamped(originalSize, newSize) ==
  IF newSize = 0 THEN Undefined
  ELSE Num(Q(Max(0, (originalSize - newSize) * 100), originalSize))

\* The savings prop of a result card:
\* newSize ? ((originalFile.size - newSize) / originalFile.size) * 100 : undefined
Savings(originalSize, newSize) ==
  IF newSize = 0 THEN Undefined
  ELSE Num(Q((originalSize - newSize) * 100, originalSize))

\* The badge of a 'done' card whose savings are defined:
\* {savings > 0 ? '-' : ''}{Math.abs(savings).toFixed(0)}%
SavingsBadge(savings) ==
  LET s == savings[1]
      abs == IF s.num >= 0 THEN s ELSE Q(-s.num, s.den)
  IN {[minus |-> s.num > 0, percent |-> p] : p \in MathRound(abs)}

\* A helper resolves: the call it made to canvas.toBlob, and the size of the
\* blob the encoder returned.
Resolve(via, call) ==
  /\ output = NoOutput
  /\ \E size \in Sizes :
       output' = <<[via |-> via, call |-> call, size |-> size]>>
  /\ UNCHANGED <<srcFile, encodeOptions>>
  /\ UNCHANGED <<queueVars, resizeVars>>

\* processImage(file, options), as the Dashboard calls it.
ProcessImageCall ==
  Resolve("processImage",
          ProcessImageEncode(srcFile, encodeOptions.format, encodeOptions.quality))

\* compressToWebP(file, quality), as the Compressor calls it.
CompressToWebPCall ==
  Resolve("compressToWebP", CompressToWebP(srcFile, encodeOptions.quality))

\* resizeImage(file, options), as the Resizer calls it: no format is chosen.
ResizeImageCall == Resolve("resizeImage", ResizeImage(srcFile))

\* The older resizeImage(file, options), as the Resizer calls it.
ResizeImageLegacyCall ==
  Resolve("resizeImage (older)", ResizeImageLegacy(srcFile))

EncodeNext ==
  \/ ProcessImageCall
  \/ CompressToWebPCall
  \/ ResizeImageCall
  \/ ResizeImageLegacyCall

\* The calls of the helpers, for every file and every format and quality.
EncodeInit ==
  /\ QueueInit
  /\ img = [width |-> 1, height |-> 1]
  /\ options = [resizeMode |-> "none", scale |-> Undefined,
                targetWidth |-> Undefined, targetHeight |-> Undefined,
                maintainAspectRatio |-> TRUE]
  /\ canvas = NoCanvas
  /\ srcFile \in SourceFiles
  /\ encodeOptions \in EncodeOptions
  /\ output = NoOutput

EncodeSpec == EncodeInit /\ [][EncodeNext]_vars

\* ---- properties -------------------------------------------------------------
Files == 1..MaxFiles
Terminal == {"done", "error"}

\* The records of the visible list that belong to file u.
RecordsOf(u) == {i \in DOMAIN files : files[i].file = u}
StatusIs(u, st) == \E i \in RecordsOf(u) : files[i].status = st

Processing == {i \in DOMAIN files : files[i].status = "processing"}

\* No clearAll has run yet: every file supplied so far is still listed.
NothingCleared == Len(files) = nextFile - 1

\* C1: in every reachable state at most one job of the queue has status
\* Processing.
C1_AtMostOneProcessing == Cardinality(Processing) <= 1

\* C2: with every codec call and delay returning, a job that is Pending and
\* is not cleared eventually is Done or Error, without the user acting again.
C2_PendingJobsFinish ==
  \A u \in Files :
    StatusIs(u, "pending") ~> (RecordsOf(u) = {} \/ StatusIs(u, "done")
                               \/ StatusIs(u, "error"))

\* C3: with no clear, jobs are set to Processing in arrival order, and a job
\* has left Pending only when every job before it is Done or Error.
C3_FifoStart ==
  NothingCleared =>
    \A i, j \in DOMAIN files :
      (i < j /\ files[j].status # "pending") => files[i].status \in Terminal

\* C4: the resize rule, format and quality a job's output was made with are
\* those in effect when the job was enqueued.
C4_ConfigAtEnqueue ==
  \A i \in DOMAIN files :
    files[i].result # NoResult =>
      LET r == files[i].result[1]
      IN [resizeMode |-> r.resizeMode, format |-> r.format,
          quality |-> r.quality] = enqueuedWith[r.src]

\* The status changes a job may make.
Allowed(a, b) ==
  \/ a = b
  \/ a = "pending" /\ b = "processing"
  \/ a = "processing" /\ b \in Terminal

\* C5: a job's status only moves Pending -> Processing -> Done or Error; a
\* job that is Done or Error keeps that status, also when the Export Sink
\* call after the Done transition fails.
C5_StatusMonotone ==
  [][\A i \in DOMAIN files : \A j \in DOMAIN files' :
       files[i].file = files'[j].file =>
         Allowed(files[i].status, files'[j].status)]_vars

\* C6: a job record carries result fields if and only if its status is Done.
C6_ResultIffDone ==
  \A i \in DOMAIN files :
    (files[i].result # NoResult) <=> (files[i].status = "done")

\* C7: the Export Sink is never invoked for a job that was Processing when
\* clear was invoked, also with auto-export enabled. (Only the downloadBlob
\* calls that returned are counted, which favours the claim.)
C7_NoExportOfClearedJob ==
  \A k \in DOMAIN lastSink :
    lastSink[k].ok => lastSink[k].file \notin clearedInFlight

\* C8: after a clear during Processing the visible list never holds a record
\* of the cleared job, nor its result, also when jobs are enqueued later.
C8_NoRecordOfClearedJob ==
  \A i \in DOMAIN files :
    /\ files[i].file \notin clearedInFlight
    /\ files[i].result # NoResult =>
         files[i].result[1].src \notin clearedInFlight

\* A cooldown timer armed by an Export Sink invocation has not run out: less
\* than Cooldown ms have passed since that invocation.
CoolingDown ==
  \/ drain.pc = "cooldown" /\ drain.timer > 0
  \/ \E r \in DOMAIN downloads : downloads[r].timer > 0

\* C9: two consecutive Export Sink invocations of the auto-export path and
\* of download-all runs, however interleaved, are at least Cooldown apart:
\* none is made while the cooldown of an earlier one is running. (Only the
\* downloadBlob calls that returned are counted, which favours the claim.)
C9_ExportSpacing ==
  [][(\E k \in DOMAIN lastSink' :
        lastSink'[k].ok /\ lastSink'[k].by \in {"auto", "all"})
       => ~CoolingDown]_vars

\* The files whose record takes status st in this step.
Becomes(st) ==
  {files'[j].file : j \in {k \in DOMAIN files' :
      /\ files'[k].status = st
      /\ \A i \in DOMAIN files :
           files[i].file = files'[k].file => files[i].status # st}}

\* C10: with auto-export enabled, a job that reaches Done is handed to the
\* Export Sink at once (downloadBlob is called with its result in the step
\* that makes it Done), before another job is set to Processing, and no job
\* is set to Processing until the cooldown after that invocation has run out.
C10_ExportThenCooldown ==
  [][/\ settings.autoDownload =>
          \A u \in Becomes("done") :
            \E k \in DOMAIN lastSink' :
              lastSink'[k].by = "auto" /\ lastSink'[k].file = u
     /\ Becomes("processing") # {} =>
          ~(drain.pc = "cooldown" /\ drain.timer > 0)]_vars

\* The job the running drain has started in this step, if any.
StartedNow(u) ==
  /\ drain'.pc = "pacing"
  /\ drain'.batch[drain'.idx].file = u
  /\ (drain'.idx # drain.idx \/ drain'.batch # drain.batch)

\* C11: a decode or encode failure of one job sets that job, and no other,
\* to Error and changes no other job's result; the drain goes on: the next
\* job of the batch is started, and the only other status change of the step
\* is that start (Pending to Processing).
C11_FailureIsLocal ==
  [][ProcessImageRejected =>
       LET fileItem == drain.batch[drain.idx]
       IN /\ DOMAIN files' = DOMAIN files
          /\ \A i \in DOMAIN files :
               IF files[i].file = fileItem.file
               THEN files'[i].status = "error"
               ELSE /\ files'[i].result = files[i].result
                    /\ files'[i].file = files[i].file
                    /\ \/ files'[i].status = files[i].status
                       \/ /\ files[i].status = "pending"
                          /\ files'[i].status = "processing"
                          /\ StartedNow(files[i].file)
          /\ drain.idx < Len(drain.batch) =>
               /\ drain'.pc = "pacing"
               /\ drain'.idx = drain.idx + 1
               /\ drain'.batch = drain.batch]_vars

\* C12: with every decode and encode failing, a job that is Pending or
\* Processing, also one enqueued while the drain is running, eventually has
\* status Error unless it is cleared: none stays Pending or Processing.
C12_AllJobsError ==
  \A u \in Files :
    (StatusIs(u, "pending") \/ StatusIs(u, "processing"))
      ~> (RecordsOf(u) = {} \/ StatusIs(u, "error"))

\* Two jobs have failed one after the other and the drain has returned.
C12_Witness ==
  /\ Len(files) = MaxFiles
  /\ \A i \in DOMAIN files : files[i].status = "error"
  /\ drain.pc = "idle"
  /\ ~isProcessing

\* The downloadBlob call of a download-all run for record rec.
AllSink(rec) ==
  /\ Len(lastSink') = 1
  /\ lastSink'[1].by = "all"
  /\ lastSink'[1].file = rec.result[1].src

\* C13: download-all invokes the Export Sink once for each job that is Done
\* when it is invoked, in the order of the list, a cooldown apart, and for
\* no other job: the step that starts a run exports the first Done job and
\* leaves a run holding the other Done jobs in order behind a cooldown
\* timer; a run resumes only when its timer has run out, exports the head of
\* what it holds and keeps the tail; a download-all call is made in no other
\* step.
C13_DownloadAllOnce ==
  [][/\ HandleDownloadAll =>
          LET doneFiles == DoneFiles(files)
              run == Len(downloads) + 1
          IN /\ \A k \in DOMAIN doneFiles : doneFiles[k].status = "done"
             /\ AllSink(doneFiles[1])
             /\ Len(doneFiles) > 1 =>
                  /\ Len(downloads') = run
                  /\ downloads'[run].rest = Tail(doneFiles)
                  /\ downloads'[run].timer = Cooldown
     /\ DownloadAllResumed =>
          \E r \in DOMAIN downloads :
            LET rest == downloads[r].rest
            IN /\ downloads[r].timer = 0
               /\ IF rest = <<>>
                  THEN lastSink' = <<>> /\ Len(downloads') = Len(downloads) - 1
                  ELSE /\ AllSink(rest[1])
                       /\ Len(rest) > 1 =>
                            /\ Len(downloads') = Len(downloads)
                            /\ downloads'[r].rest = Tail(rest)
                            /\ downloads'[r].timer = Cooldown
     /\ (\E k \in DOMAIN lastSink' : lastSink'[k].by = "all")
          => (HandleDownloadAll \/ DownloadAllResumed)]_vars

\* The record was set to 'processing' by a processQueue call that the effect
\* of this step started.
StartedByEffect(rec) ==
  /\ drain.pc = "idle"
  /\ drain'.pc = "pacing"
  /\ rec.id = drain'.batch[1].id
  /\ rec.status = "processing"

\* C14: enqueue appends the new jobs at the tail, Pending, in the order the
\* files were supplied, and leaves the jobs already listed where they were,
\* with their status and result. (The effect that follows the enqueue may
\* start the drain in the same step; what that start sets to 'processing'
\* is the drain's doing and is told apart here.)
C14_EnqueueAppends ==
  [][HandleFilesSelected =>
       LET old == Len(files)
           n == nextFile' - nextFile
       IN /\ n >= 1
          /\ Len(files') = old + n
          /\ \A i \in 1..old :
               /\ files'[i].id = files[i].id
               /\ files'[i].file = files[i].file
               /\ files'[i].result = files[i].result
               /\ files'[i].status = files[i].status \/ StartedByEffect(files'[i])
          /\ \A k \in 1..n :
               /\ files'[old + k].file = nextFile + k - 1
               /\ files'[old + k].result = NoResult
               /\ files'[old + k].status = "pending"
                    \/ StartedByEffect(files'[old + k])]_vars

\* A file was enqueued behind a job that is being processed: the drain's
\* batch holds the first job only, which is still Processing.
C14_Witness ==
  /\ Len(files) = 2
  /\ drain.pc # "idle"
  /\ Len(drain.batch) = 1
  /\ files[1].status = "processing"
  /\ files[2].status = "pending"
  /\ files[1].file = 1
  /\ files[2].file = 2

\* C15: the jobs listed at the same time have pairwise distinct ids (so that
\* an update by id changes one record).
C15_DistinctIds ==
  \A i, j \in DOMAIN files : i # j => files[i].id # files[j].id

\* ---- properties of the canvas size -------------------------------------------
Abs(x) == IF x >= 0 THEN x ELSE -x

\* n is an integer nearest to q: |n - q| <= 1/2.
Nearest(n, q) == 2 * Abs(n * q.den - q.num) <= q.den

\* n is q rounded to a nearest integer and then floored at 1.
NearestFlooredAtOne(n, q) ==
  \E a \in (q.num \div q.den)..(q.num \div q.den + 1) :
    Nearest(a, q) /\ n = Max(1, a)

\* processImage has created the canvas.
Resolved == canvas # NoCanvas

\* The rule is Percentage(scale) with 0 < scale <= 1.
PercentageRule ==
  /\ options.resizeMode = "percentage"
  /\ options.scale # Undefined
  /\ options.scale[1] > 0
  /\ options.scale[1] <= ScaleDen

\* C16 as stated: for Percentage(scale), 0 < scale <= 1, outW is w * scale
\* rounded to the nearest integer, outH is h * scale rounded, both >= 1.
C16_PercentageRounds ==
  (Resolved /\ PercentageRule) =>
    /\ Nearest(canvas.width, Q(img.width * options.scale[1], ScaleDen))
    /\ Nearest(canvas.height, Q(img.height * options.scale[1], ScaleDen))
    /\ canvas.width >= 1
    /\ canvas.height >= 1

\* C16 amended: for Percentage(scale), 0 < scale <= 1, outW is w * scale
\* rounded to a nearest integer and then floored at 1, and so is outH with
\* h * scale; both are >= 1.
C16_PercentageRoundsFlooredAtOne ==
  (Resolved /\ PercentageRule) =>
    /\ NearestFlooredAtOne(canvas.width,
                           Q(img.width * options.scale[1], ScaleDen))
    /\ NearestFlooredAtOne(canvas.height,
                           Q(img.height * options.scale[1], ScaleDen))
    /\ canvas.width >= 1
    /\ canvas.height >= 1

\* A width whose scaled value rounds to 0 has been resolved to 1, next to a
\* height that is scaled to more than 1.
C16_Witness ==
  /\ Resolved
  /\ PercentageRule
  /\ 2 * img.width * options.scale[1] < ScaleDen
  /\ canvas.width = 1
  /\ canvas.height > 1
  /\ canvas.height < img.height

\* A target that is given: a positive integer. A target that is not: missing,
\* or 0, which processImage takes for missing.
Given(x) == x # Undefined /\ x[1] >= 1
NotGiven(x) == x = Undefined \/ x[1] = 0

\* The rule is Dimensions with preserveAspect.
AspectRule ==
  options.resizeMode = "dimensions" /\ options.maintainAspectRatio

WidthOnly ==
  AspectRule /\ Given(options.targetWidth) /\ NotGiven(options.targetHeight)

HeightOnly ==
  AspectRule /\ NotGiven(options.targetWidth) /\ Given(options.targetHeight)

\* 1920 x 1080 with targetWidth 800.
Example1920 ==
  CanvasSize([width |-> 1920, height |-> 1080],
             [resizeMode |-> "dimensions", scale |-> Undefined,
              targetWidth |-> Num(800), targetHeight |-> Undefined,
              maintainAspectRatio |-> TRUE])

\* C17 as stated: with preserveAspect and one target given, the given axis
\* is the target and the other is the target scaled by the aspect ratio of
\* the source, rounded to the nearest integer; 1920 x 1080 with target width
\* 800 gives 800 x 450.
C17_OneAxisKeepsAspect ==
  /\ (Resolved /\ WidthOnly) =>
       /\ canvas.width = options.targetWidth[1]
       /\ Nearest(canvas.height,
                  Q(options.targetWidth[1] * img.height, img.width))
  /\ (Resolved /\ HeightOnly) =>
       /\ canvas.height = options.targetHeight[1]
       /\ Nearest(canvas.width,
                  Q(options.targetHeight[1] * img.width, img.height))
  /\ Example1920 = {[width |-> 800, height |-> 450]}

\* C17 amended: the axis that follows is the scaled target rounded to a
\* nearest integer and then floored at 1.
C17_OneAxisKeepsAspectFlooredAtOne ==
  /\ (Resolved /\ WidthOnly) =>
       /\ canvas.width = options.targetWidth[1]
       /\ NearestFlooredAtOne(canvas.height,
              Q(options.targetWidth[1] * img.height, img.width))
  /\ (Resolved /\ HeightOnly) =>
       /\ canvas.height = options.targetHeight[1]
       /\ NearestFlooredAtOne(canvas.width,
              Q(options.targetHeight[1] * img.width, img.height))
  /\ Example1920 = {[width |-> 800, height |-> 450]}

\* A wide source resolved for a small target width: the height that follows
\* rounds to 0 and is 1.
C17_Witness ==
  /\ Resolved
  /\ WidthOnly
  /\ 2 * options.targetWidth[1] * img.height < img.width
  /\ canvas.width = options.targetWidth[1]
  /\ canvas.height = 1

\* The rule is Dimensions with preserveAspect and both targets given.
BoxRule ==
  AspectRule /\ Given(options.targetWidth) /\ Given(options.targetHeight)

\* n is less than 1 px away from q.
WithinOnePx(n, q) == Abs(n * q.den - q.num) < q.den

\* C18: with preserveAspect and both targets given, the output is the source
\* scaled by factor = min(targetW / w, targetH / h), each axis within 1 px of
\* the scaled value, and it does not exceed the box: outW <= targetW and
\* outH <= targetH.
C18_FitWithinBox ==
  (Resolved /\ BoxRule) =>
    LET w == img.width
        h == img.height
        tw == options.targetWidth[1]
        th == options.targetHeight[1]
        factor == IF tw * h <= th * w THEN Q(tw, w) ELSE Q(th, h)
    IN /\ canvas.width <= tw
       /\ canvas.height <= th
       /\ WithinOnePx(canvas.width, Q(w * factor.num, factor.den))
       /\ WithinOnePx(canvas.height, Q(h * factor.num, factor.den))

\* A source fitted into a box of another shape: the width fills the box, the
\* height stays below it, and the source has been scaled down.
C18_Witness ==
  /\ Resolved
  /\ BoxRule
  /\ canvas.width = options.targetWidth[1]
  /\ canvas.width < img.width
  /\ canvas.height < options.targetHeight[1]
  /\ canvas.height > 1

\* C19: for every source and every resize rule, targets that are zero,
\* negative or missing and a scale of 0 included, the computation yields a
\* canvas size, and its width and height are integers >= 1.
C19_AtLeastOnePixel ==
  /\ CanvasSize(img, options) # {}
  /\ Resolved =>
       /\ canvas.width \in Int
       /\ canvas.height \in Int
       /\ canvas.width >= 1
       /\ canvas.height >= 1

\* A negative target width next to a zero target height, without
\* preserveAspect, has been resolved: the width is 1.
C19_Witness ==
  /\ Resolved
  /\ options.resizeMode = "dimensions"
  /\ ~options.maintainAspectRatio
  /\ options.targetWidth = Num(-1)
  /\ options.targetHeight = Num(0)
  /\ canvas.width = 1
  /\ canvas.height = img.height
  /\ img.height > 1

\* The rule is None, or Dimensions with neither target given.
SourceSizeRule ==
  \/ options.resizeMode = "none"
  \/ /\ options.resizeMode = "dimensions"
     /\ NotGiven(options.targetWidth)
     /\ NotGiven(options.targetHeight)

\* C20: when the rule is None, or Dimensions with neither target given (with
\* or without preserveAspect), the computation yields a canvas size and it
\* is the source size exactly.
C20_SourceSizeKept ==
  SourceSizeRule =>
    /\ CanvasSize(img, options) # {}
    /\ Resolved => canvas = [width |-> img.width, height |-> img.height]

\* Dimensions with a target width of 0 and no target height has been
\* resolved to the size of a source larger than 1 x 1.
C20_Witness ==
  /\ Resolved
  /\ options.resizeMode = "dimensions"
  /\ options.targetWidth = Num(0)
  /\ options.targetHeight = Undefined
  /\ img.width > 1
  /\ img.height > 1
  /\ canvas = [width |-> img.width, height |-> img.height]

\* ---- the output file name and the encoder's parameters ----------------------
\* The call a helper made to the encoder, once it has resolved.
ResolvedVia(via) == output # NoOutput /\ output[1].via = via
Encoded == output # NoOutput
EncoderCall == output[1].call

EndsWith(s, suffix) ==
  /\ Len(s) >= Len(suffix)
  /\ SubSeq(s, Len(s) - Len(suffix) + 1, Len(s)) = suffix

\* The canonical extension of each output format.
CanonicalExtension(format) ==
  IF format = "image/webp" THEN <<".", "w", "e", "b", "p">>
  ELSE IF format = "image/jpeg" THEN <<".", "j", "p", "g">>
  ELSE <<".", "p", "n", "g">>

\* The position of the last dot of a name, 0 if it has none.
LastDot(name) ==
  LET dots == {i \in 1..Len(name) : name[i] = "."}
  IN IF dots = {} THEN 0 ELSE CHOOSE i \in dots : \A j \in dots : j <= i

\* A name has an extension if something follows its last dot, within the
\* last component of the name.
HasExtension(name) ==
  /\ LastDot(name) > 0
  /\ LastDot(name) < Len(name)
  /\ \A j \in (LastDot(name) + 1)..Len(name) : name[j] # "/"

Stem(name) == SubSeq(name, 1, LastDot(name) - 1)

\* The calls that go through processImage, where an output format is chosen.
FormatChosen == Encoded /\ output[1].via # "resizeImage (older)"

\* C21: the output file name of every call with a chosen format ends with
\* the canonical extension of the format handed to the encoder; the
\* extension of the source name is replaced by it, and a source name without
\* a dot gets it appended.
C21_CanonicalExtension ==
  FormatChosen =>
    LET extension == CanonicalExtension(EncoderCall.type)
    IN /\ EndsWith(EncoderCall.fileName, extension)
       /\ HasExtension(srcFile.name) =>
            EncoderCall.fileName = Stem(srcFile.name) \o extension
       /\ LastDot(srcFile.name) = 0 =>
            EncoderCall.fileName = srcFile.name \o extension

\* "..a" converted to PNG has become "..png": only the last extension went.
C21_Witness ==
  /\ ResolvedVia("processImage")
  /\ srcFile.name = <<".", ".", "a">>
  /\ encodeOptions.format = "image/png"
  /\ EncoderCall.fileName = <<".", ".", "p", "n", "g">>

\* The requested quality limited to [0, 1].
Clamped(quality) == Max(0, Min(QualityDen, quality))

\* C22: for JPEG and WEBP the quality handed to the encoder is the requested
\* quality clamped to [0, 1], whatever the requested value.
C22_QualityClamped ==
  /\ ResolvedVia("processImage") \/ ResolvedVia("compressToWebP")
  /\ EncoderCall.type \in {"image/jpeg", "image/webp"}
  => EncoderCall.quality = Num(Clamped(encodeOptions.quality))

C25_VectorSourceEncodedAsPng ==
  /\ ResolvedVia("resizeImage") \/ ResolvedVia("resizeImage (older)")
  /\ srcFile.type = "image/svg+xml"
  => EncoderCall.type = "image/png"

\* ---- clearing, settings and the drain ---------------------------------------
\* The downloadBlob calls of the step just taken that the loop of
\* processQueue made.
AutoExports == {k \in DOMAIN lastSink' : lastSink'[k].by = "auto"}

\* C26: a job that was Pending when clearAll ran is never decoded, encoded
\* or handed to the Export Sink afterwards.
C26_ClearStopsBatch ==
  \A u \in history.pendingAtClear :
    /\ history.decoded[u] = 0
    /\ u \notin history.succeeded
    /\ history.exported[u] = 0

\* C27: the drain hands a job that reaches Done to the Export Sink exactly
\* when autoDownload is on at that moment.
C27_AutoExportFollowsSetting ==
  [][ProcessImageResolved => (AutoExports # {} <=> settings.autoDownload)]_vars

\* C28: a change of one global setting leaves the view's resize mode,
\* format and quality as they are.
C28_SettingChangeKeepsConfig ==
  [][settings' # settings => config' = config]_vars

\* C29: no job is in two batches of the drain, none is decoded more than
\* once, and the loop calls the Export Sink at most once per job.
C29_AtMostOnce ==
  \A u \in Files :
    /\ history.batched[u] <= 1
    /\ history.decoded[u] <= 1
    /\ history.exported[u] <= 1

\* A second drain has started after a first one decoded and exported its job.
C29_Witness ==
  /\ history.batched = [u \in Files |-> 1]
  /\ history.decoded[1] = 1
  /\ history.exported[1] = 1
  /\ drain.pc = "pacing"
  /\ drain.batch[drain.idx].file = 2

\* C30: every call of the Export Sink, by the drain, by download-all or by a
\* single download, is made for a job whose transform succeeded and with
\* that job's own output; the job's record is not Pending, Processing or
\* Error.
C30_ExportOnlyOfSucceeded ==
  [][\A k \in DOMAIN lastSink' :
       LET event == lastSink'[k]
       IN /\ event.job \in history'.succeeded
          /\ event.file = event.job
          /\ \A i \in DOMAIN files' :
               files'[i].file = event.job => files'[i].status = "done"]_vars
====
